---------------------------- MODULE Spec2Model ----------------------------
(* A model of src/src/embed.py: the SupEmb class (constructor, graph        *)
(* builders, Laplacian / inverse-degree helpers, the joint embedding Q and  *)
(* its projection).                                                         *)
(*                                                                          *)
(* Numbers.  numpy computes in IEEE doubles.  The model computes in exact   *)
(* rationals extended with the three IEEE special values the code can       *)
(* produce by dividing by zero: a value is a pair <<n, d>> in lowest terms, *)
(* d > 0 for a finite n/d, <<1,0>> = +inf, <<-1,0>> = -inf, <<0,0>> = NaN.  *)
(* Rounding is not modelled; the sign of zero is not modelled.              *)
(*                                                                          *)
(* Matrices.  A matrix is a record [rows, cols, a] with a[i][j] its entry;  *)
(* indices are 1-based here and 0-based in the source.  A failed numpy      *)
(* operation (incompatible shapes) yields Err, which every later operation  *)
(* propagates, as a raised ValueError aborts the calling method.            *)
EXTENDS Integers, Sequences, FiniteSets, TLC

VARIABLES
    inp,    \* the eight matrices handed to SupEmb(...)
    pc,     \* "new" | "assert_failed" | "constructed" | "embedded" | "dim_error" | "projected"
    self,   \* the object's fields M, d, h, k2, k3, k3_bar, lambda_2, w2, w3, dims
    Q,      \* the result of get_embedding
    proj,   \* the result of get_projection: u, Pa, Pb
    calls,  \* the methods that have run, in order
    log,    \* the warnings emitted, in order
    arg,    \* the arguments of a direct method call
    ret     \* the result of the last direct method call

vars == <<inp, pc, self, Q, proj, calls, log, arg, ret>>

-----------------------------------------------------------------------------
(* Bounds of the model. *)

\* rows of Ua and Ub range over 1..MaxM
MaxM == 2
\* columns of Ua, Ub, A, B range over 1..MaxD
MaxD == 2
\* columns of the instance matrices of the pipeline range over 2..MaxXCols
MaxXCols == 3
\* rows and columns of a directly supplied weight matrix W
MaxW == 2
\* columns of a directly supplied instance matrix X
MaxC == 2
\* rows of a directly supplied instance matrix X
MaxN == 3
\* the k handed to get_kNNs / get_W3 / k2 ranges over 0..MaxK
MaxK == 3
\* lambda_2 ranges over 1..MaxLambda in direct calls of get_W2
MaxLambda == 2
\* dims ranges over 1..MaxDims
MaxDims == 3

-----------------------------------------------------------------------------
(* Extended rational arithmetic (IEEE special values included). *)

Zero == <<0, 1>>
One  == <<1, 1>>
NaN  == <<0, 0>>

Abs(n) == IF n < 0 THEN -n ELSE n
Sign(n) == IF n < 0 THEN -1 ELSE IF n > 0 THEN 1 ELSE 0
Min(a, b) == IF a < b THEN a ELSE b

RECURSIVE GCD(_, _)
GCD(a, b) == IF b = 0 THEN a ELSE GCD(b, a % b)

\* the value n/d in canonical form
Norm(n, d) ==
    IF d = 0 THEN <<Sign(n), 0>>
    ELSE LET g == GCD(Abs(n), Abs(d))
             s == IF d < 0 THEN -1 ELSE 1
         IN  <<(s * n) \div g, (s * d) \div g>>

R(n) == <<n, 1>>
RNeg(x) == <<-x[1], x[2]>>
RMul(x, y) == Norm(x[1] * y[1], x[2] * y[2])
RAdd(x, y) ==
    IF x[2] = 0 /\ y[2] = 0
    THEN (IF x = y THEN x ELSE NaN)
    ELSE Norm(x[1] * y[2] + y[1] * x[2], x[2] * y[2])
RSub(x, y) == RAdd(x, RNeg(y))
\* 1.0 / x: 1/0 is +inf, 1/inf is 0, 1/NaN is NaN
RInv(x) == Norm(x[2], x[1])
RDiv(x, y) == RMul(x, RInv(y))
\* x < y for finite x, y
RLt(x, y) == x[1] * y[2] < y[1] * x[2]
\* IEEE ==: NaN equals nothing, itself included
REq(x, y) == x # NaN /\ y # NaN /\ x = y

\* the sum of the first n entries of the vector v
RECURSIVE RSum(_, _)
RSum(v, n) == IF n = 0 THEN Zero ELSE RAdd(RSum(v, n - 1), v[n])

\* the exact square root of a perfect square (the inputs are drawn so that
\* every row norm is an integer)
ISqrt(m) == CHOOSE r \in 0..m : r * r = m

-----------------------------------------------------------------------------
(* numpy arrays. *)

Err == [rows |-> -1, cols |-> -1, a |-> <<>>]
IsErr(X) == X.rows = -1

\* numpy.zeros((r, c)), numpy.eye(n), numpy.diag(v), X.T
zeros(r, c) ==
    [rows |-> r, cols |-> c, a |-> [i \in 1..r |-> [j \in 1..c |-> Zero]]]
eye(n) ==
    [rows |-> n, cols |-> n,
     a |-> [i \in 1..n |-> [j \in 1..n |-> IF i = j THEN One ELSE Zero]]]
diag(v) ==
    [rows |-> Len(v), cols |-> Len(v),
     a |-> [i \in 1..Len(v) |-> [j \in 1..Len(v) |-> IF i = j THEN v[i] ELSE Zero]]]
T(X) ==
    IF IsErr(X) THEN Err
    ELSE [rows |-> X.cols, cols |-> X.rows,
          a |-> [i \in 1..X.cols |-> [j \in 1..X.rows |-> X.a[j][i]]]]

\* numpy.dot(X, Y) of two 2-D arrays
dot(X, Y) ==
    IF IsErr(X) \/ IsErr(Y) \/ X.cols # Y.rows THEN Err
    ELSE [rows |-> X.rows, cols |-> Y.cols,
          a |-> [i \in 1..X.rows |-> [j \in 1..Y.cols |->
                  RSum([k \in 1..X.cols |-> RMul(X.a[i][k], Y.a[k][j])], X.cols)]]]

\* numpy.concatenate((X, Y), axis=0) and axis=1
concatenate0(X, Y) ==
    IF IsErr(X) \/ IsErr(Y) \/ X.cols # Y.cols THEN Err
    ELSE [rows |-> X.rows + Y.rows, cols |-> X.cols,
          a |-> [i \in 1..(X.rows + Y.rows) |-> [j \in 1..X.cols |->
                  IF i <= X.rows THEN X.a[i][j] ELSE Y.a[i - X.rows][j]]]]
concatenate1(X, Y) ==
    IF IsErr(X) \/ IsErr(Y) \/ X.rows # Y.rows THEN Err
    ELSE [rows |-> X.rows, cols |-> X.cols + Y.cols,
          a |-> [i \in 1..X.rows |-> [j \in 1..(X.cols + Y.cols) |->
                  IF j <= X.cols THEN X.a[i][j] ELSE Y.a[i][j - X.cols]]]]

\* X - Y and c * X for arrays of one shape
msub(X, Y) ==
    IF IsErr(X) \/ IsErr(Y) \/ X.rows # Y.rows \/ X.cols # Y.cols THEN Err
    ELSE [rows |-> X.rows, cols |-> X.cols,
          a |-> [i \in 1..X.rows |-> [j \in 1..X.cols |-> RSub(X.a[i][j], Y.a[i][j])]]]
scale(c, X) ==
    IF IsErr(X) THEN Err
    ELSE [rows |-> X.rows, cols |-> X.cols,
          a |-> [i \in 1..X.rows |-> [j \in 1..X.cols |-> RMul(c, X.a[i][j])]]]

\* numpy.sum(W, axis=1) and numpy.sum(W, axis=0)
rowsums(W) == [i \in 1..W.rows |-> RSum(W.a[i], W.cols)]
colsums(W) == [j \in 1..W.cols |-> RSum([i \in 1..W.rows |-> W.a[i][j]], W.rows)]

\* numpy.count_nonzero(s), numpy.mean(s)
count_nonzero(s) == Cardinality({i \in 1..Len(s) : s[i] # Zero})
mean(s) == RDiv(RSum(s, Len(s)), R(Len(s)))

\* sklearn.preprocessing.normalize(A, norm='l2'): each row divided by its L2
\* norm, a zero norm replaced by 1 (an all-zero row stays as it is)
normalize(A) ==
    LET norm(i) ==
            LET n2 == RSum([j \in 1..A.cols |-> RMul(A.a[i][j], A.a[i][j])], A.cols)
                n  == ISqrt(n2[1])
            IN  IF n = 0 THEN One ELSE R(n)
    IN  [rows |-> A.rows, cols |-> A.cols,
         a |-> [i \in 1..A.rows |-> [j \in 1..A.cols |-> RDiv(A.a[i][j], norm(i))]]]

\* numpy.argsort of one row: the permutations of its indices that put the
\* values in ascending order.  The default sort is not stable, so equal values
\* may come in any order.
argsort(row) ==
    LET n == Len(row)
    IN  {p \in [1..n -> 1..n] :
            /\ \A i, j \in 1..n : i # j => p[i] # p[j]
            /\ \A i \in 1..(n - 1) : ~RLt(row[p[i + 1]], row[p[i]])}

\* the Python slice seq[-k:] for k >= 0 (seq[-0:] is seq[0:], the whole of seq)
slice_last(seq, k) ==
    LET n == Len(seq)
    IN  IF k = 0 \/ k >= n THEN seq ELSE SubSeq(seq, n - k + 1, n)

\* the elements of an array, for the test "j in array"
members(seq) == {seq[x] : x \in 1..Len(seq)}

\* the sequences s of length n with s[i] \in choices[i]
RECURSIVE RowChoices(_, _)
RowChoices(choices, n) ==
    IF n = 0 THEN {<<>>}
    ELSE {Append(s, x) : s \in RowChoices(choices, n - 1), x \in choices[n]}

-----------------------------------------------------------------------------
(* The methods of SupEmb.  A method whose result depends on the order the   *)
(* sort gives to equal values is the set of its possible results.           *)

\* init_asserts without its last assertion (the check of XuB)
init_asserts_no_XuB(Ua, Ub, A, B, XlA_pos, XlA_neg, XuA, XuB) ==
    /\ Ua.rows = Ub.rows
    /\ Ub.cols = B.cols
    /\ Ua.cols = A.cols
    /\ XlA_pos.cols = XlA_neg.cols
    /\ Ua.rows + A.rows = XuA.cols

\* the six assertions of the constructor
init_asserts(Ua, Ub, A, B, XlA_pos, XlA_neg, XuA, XuB) ==
    /\ Ua.rows = Ub.rows
    /\ Ub.cols = B.cols
    /\ Ua.cols = A.cols
    /\ XlA_pos.cols = XlA_neg.cols
    /\ Ua.rows + A.rows = XuA.cols
    /\ Ub.rows + B.rows = XuB.cols

\* the fields the constructor sets
init_fields(Ua, Ub) ==
    [M |-> Ua.rows, d |-> Ua.cols, h |-> Ub.cols,
     w1 |-> 1, w2 |-> 1, w3 |-> 1, lambda_1 |-> 1, lambda_2 |-> 1,
     k2 |-> 5, k3 |-> 5, k3_bar |-> 5, dims |-> 500]

get_W1(M) ==
    LET O == zeros(M, M)
        I == eye(M)
        top == concatenate1(O, I)
        bottom == concatenate1(I, O)
    IN  concatenate0(top, bottom)

\* neighbours[i] is kept as the set of the indices in N[i,:][-k:]: the callers
\* only test "j in neighbours[i]", and the order within it means nothing
get_kNNs(A, k) ==
    LET normA == normalize(A)
        S == dot(normA, T(normA))
        N == [i \in 1..S.rows |-> {members(slice_last(p, k)) : p \in argsort(S.a[i])}]
    IN  {[S |-> S, neighbours |-> nb] : nb \in RowChoices(N, S.rows)}

\* j in neighbours[i]
in_nb(j, nb) == j \in nb

\* get_W2 testing only j in neighbours[i], not i in neighbours[j]
get_W2_onesided(XlA_pos, XlA_neg, k2, lambda_2) ==
    LET XlA == concatenate0(XlA_pos, XlA_neg)
        pos_n == XlA_pos.rows
        n == pos_n + XlA_neg.rows
        Y == [i \in 1..n |-> IF i <= pos_n THEN 1 ELSE -1]
        W2(S, neighbours) ==
            [rows |-> n, cols |-> n,
             a |-> [i \in 1..n |-> [j \in 1..n |->
                     IF in_nb(j, neighbours[i])
                     THEN (IF Y[i] = Y[j] THEN RMul(RNeg(R(lambda_2)), S.a[i][j])
                                          ELSE S.a[i][j])
                     ELSE Zero]]]
    IN  IF IsErr(XlA) THEN {Err}
        ELSE {W2(r.S, r.neighbours) : r \in get_kNNs(XlA, k2)}

get_W2(XlA_pos, XlA_neg, k2, lambda_2) ==
    LET XlA == concatenate0(XlA_pos, XlA_neg)
        pos_n == XlA_pos.rows
        neg_n == XlA_neg.rows
        n == pos_n + neg_n
        Y == [i \in 1..n |-> IF i <= pos_n THEN 1 ELSE -1]
        W2(S, neighbours) ==
            [rows |-> n, cols |-> n,
             a |-> [i \in 1..n |-> [j \in 1..n |->
                     IF in_nb(j, neighbours[i]) /\ in_nb(i, neighbours[j])
                     THEN (IF Y[i] = Y[j] THEN RMul(RNeg(R(lambda_2)), S.a[i][j])
                                          ELSE S.a[i][j])
                     ELSE Zero]]]
    IN  IF IsErr(XlA) THEN {Err}
        ELSE {W2(r.S, r.neighbours) : r \in get_kNNs(XlA, k2)}

\* get_W3 keeping S[i,j] only where j is a neighbour of i
get_W3_masked(X, k) ==
    LET n == X.rows
        W3(S, neighbours) ==
            [rows |-> n, cols |-> n,
             a |-> [i \in 1..n |-> [j \in 1..n |->
                     IF in_nb(j, neighbours[i]) THEN S.a[i][j] ELSE Zero]]]
    IN  {W3(r.S, r.neighbours) : r \in get_kNNs(X, k)}

get_W3(X, k) ==
    LET n == X.rows
        W3(S) == [rows |-> n, cols |-> n,
                  a |-> [i \in 1..n |-> [j \in 1..n |-> S.a[i][j]]]]
    IN  {W3(r.S) : r \in get_kNNs(X, k)}

\* get_Laplacian with the column totals (axis=0) for the row totals
get_Laplacian_colsums(W) ==
    LET s == colsums(W)
        D == diag(s)
    IN  msub(W, D)

get_Laplacian(W) ==
    LET s == rowsums(W)
        D == diag(s)
    IN  msub(W, D)

\* perturbate as its docstring has it: the zeros replaced by the minimum of s
perturbate_min(s) ==
    LET v == CHOOSE m \in {s[i] : i \in 1..Len(s)} :
                 \A i \in 1..Len(s) : ~RLt(s[i], m)
    IN  [s |-> [i \in 1..Len(s) |-> IF s[i] = Zero THEN v ELSE s[i]],
         log |-> <<"Perturbations = 1">>]

\* returns the perturbed s and the warning logged; len(zeros) is the length of
\* the tuple numpy.where returns, 1 for a one-dimensional s
perturbate(s) ==
    LET v == mean(s)
    IN  [s |-> [i \in 1..Len(s) |-> IF s[i] = Zero THEN v ELSE s[i]],
         log |-> <<"Perturbations = 1">>]

\* returns Dinv and the warnings of the call; dividing by a zero of s gives
\* inf and numpy's "divide by zero" RuntimeWarning
get_Dinv(W) ==
    LET s0 == rowsums(W)
        p  == IF count_nonzero(s0) > 0 THEN perturbate(s0) ELSE [s |-> s0, log |-> <<>>]
        s  == p.s
        w  == IF \E i \in 1..Len(s) : s[i] = Zero THEN <<"divide by zero">> ELSE <<>>
    IN  [Dinv |-> diag([i \in 1..Len(s) |-> RInv(s[i])]), log |-> p.log \o w]

get_U1(Ua, Ub, M, d, h) ==
    LET Oh == zeros(M, h)
        top == concatenate1(Ua, Oh)
        Od == zeros(M, d)
        bottom == concatenate1(Od, Ub)
    IN  concatenate0(top, bottom)

\* the methods get_embedding runs in Rule 1, in Rule 2 and in each half of Rule 3
calls_rule1 == <<"get_W1", "get_Laplacian", "get_U1">>
calls_rule2 == <<"get_W2", "get_kNNs", "get_Laplacian", "get_Dinv">>
calls_rule3 == <<"get_W3", "get_kNNs", "get_Laplacian", "get_Dinv">>

\* x: the eight matrices, me: the object's fields.  Returns Q (Err when a
\* product or concatenation raised), the methods that ran and the warnings.
get_embedding(x, me) ==
    LET W1 == get_W1(me.M)
        L1 == get_Laplacian(W1)
        U1 == get_U1(x.Ua, x.Ub, me.M, me.d, me.h)
        Qright == dot(dot(T(U1), L1), U1)
        XlA == concatenate0(x.XlA_pos, x.XlA_neg)
        D2 == get_Dinv(XlA)
        totA == concatenate0(x.Ua, x.A)
        part1 == dot(dot(D2.Dinv, XlA), totA)
        D3 == get_Dinv(x.XuA)
        part2 == dot(dot(D3.Dinv, x.XuA), totA)
        D3_bar == get_Dinv(x.XuB)
        totB == concatenate0(x.Ub, x.B)
        part3 == dot(dot(D3_bar.Dinv, x.XuB), totB)
        result(W2, W3, W3_bar) ==
            LET L2 == get_Laplacian(W2)
                F2 == dot(dot(T(part1), L2), part1)
                L3 == get_Laplacian(W3)
                F3 == dot(dot(T(part2), L3), part2)
                L3_bar == get_Laplacian(W3_bar)
                F3_bar == dot(dot(T(part3), L3_bar), part3)
                Q11 == msub(scale(R(me.w2), F2), scale(R(me.w3), F3))
                Q12 == zeros(me.d, me.h)
                Q22 == scale(RMul(RNeg(R(me.w3)), R(me.lambda_2)), F3_bar)
                Qtop == concatenate1(Q11, Q12)
                Qbottom == concatenate1(T(Q12), Q22)
                Qleft == concatenate0(Qtop, Qbottom)
            IN  IF IsErr(Qright) THEN
                    [Q |-> Err, calls |-> calls_rule1, log |-> <<>>]
                ELSE IF IsErr(W2) THEN
                    [Q |-> Err, calls |-> calls_rule1 \o <<"get_W2">>, log |-> <<>>]
                ELSE IF IsErr(F2) THEN
                    [Q |-> Err, calls |-> calls_rule1 \o calls_rule2, log |-> D2.log]
                ELSE IF IsErr(F3) THEN
                    [Q |-> Err, calls |-> calls_rule1 \o calls_rule2 \o calls_rule3,
                     log |-> D2.log \o D3.log]
                ELSE
                    [Q |-> msub(Qleft, Qright),
                     calls |-> calls_rule1 \o calls_rule2 \o calls_rule3 \o calls_rule3,
                     log |-> D2.log \o D3.log \o D3_bar.log]
    IN  {result(W2, W3, W3_bar) :
            W2 \in get_W2(x.XlA_pos, x.XlA_neg, me.k2, me.lambda_2),
            W3 \in get_W3(x.XuA, me.k3),
            W3_bar \in get_W3(x.XuB, me.k3_bar)}

\* sparsesvd(csc_matrix(Q), k) returns ut, s, vt with the singular vectors in
\* the ROWS of ut: ut is r x Q.rows, where r <= k is the number of singular
\* triplets the solver found.  The entries are opaque here: entry (i, j) is
\* named [sv |-> i, comp |-> j].
sparsesvd(Qm, k) ==
    {[rows |-> r, cols |-> Qm.rows,
      a |-> [i \in 1..r |-> [j \in 1..Qm.rows |-> [sv |-> i, comp |-> j]]]] :
        r \in 0..Min(k, Min(Qm.rows, Qm.cols))}

\* get_projection splitting u at column h instead of column d
get_projection_split_h(Qm, d, dims) ==
    {[u |-> u,
      Pa |-> [rows |-> u.rows, cols |-> u.cols - d,
              a |-> [i \in 1..u.rows |-> [j \in 1..(u.cols - d) |-> u.a[i][j]]]],
      Pb |-> [rows |-> u.rows, cols |-> d,
              a |-> [i \in 1..u.rows |-> [j \in 1..d |-> u.a[i][u.cols - d + j]]]]] :
        u \in sparsesvd(Qm, dims)}

\* Pa = u[:, :d], Pb = u[:, d:]
get_projection(Qm, d, dims) ==
    {[u |-> u,
      Pa |-> [rows |-> u.rows, cols |-> Min(d, u.cols),
              a |-> [i \in 1..u.rows |-> [j \in 1..Min(d, u.cols) |-> u.a[i][j]]]],
      Pb |-> [rows |-> u.rows, cols |-> u.cols - Min(d, u.cols),
              a |-> [i \in 1..u.rows |->
                      [j \in 1..(u.cols - Min(d, u.cols)) |-> u.a[i][Min(d, u.cols) + j]]]]] :
        u \in sparsesvd(Qm, dims)}

-----------------------------------------------------------------------------
(* The inputs. *)

\* the r x c matrix with entries b, b+1, b+2, ... along its anti-diagonals
Fill(r, c, b) ==
    [rows |-> r, cols |-> c, a |-> [i \in 1..r |-> [j \in 1..c |-> R(b + i + j - 2)]]]

\* rows of c integers whose L2 norm is an integer: the zero row, the unit
\* rows e_1 and e_2, -e_1 and, for c >= 2, (3, 4, 0, ...)
UnitRow(c, j, v) == [x \in 1..c |-> IF x = j THEN R(v) ELSE Zero]
Row34(c) == [x \in 1..c |-> IF x = 1 THEN R(3) ELSE IF x = 2 THEN R(4) ELSE Zero]
RowSet(c) ==
    {UnitRow(c, 1, 0), UnitRow(c, 1, 1), UnitRow(c, 1, -1)}
    \cup (IF c >= 2 THEN {UnitRow(c, 2, 1), Row34(c)} ELSE {})
SmallRowSet(c) == {UnitRow(c, 1, 0), UnitRow(c, 1, 1), Row34(c)}

\* the n x c matrices with rows in rs
MatsOf(n, c, rs) == {[rows |-> n, cols |-> c, a |-> m] : m \in [1..n -> rs]}

\* the square matrices of integers in -1..1
WSet ==
    UNION {MatsOf(n, n, [1..n -> {R(-1), R(0), R(1)}]) : n \in 1..MaxW}

\* the instance matrices of direct calls
XSet == UNION {MatsOf(n, c, RowSet(c)) : n \in 1..MaxN, c \in 1..MaxC}

\* the first p rows of X, and the rest
TopRows(X, p) == [rows |-> p, cols |-> X.cols, a |-> [i \in 1..p |-> X.a[i]]]
RestRows(X, p) ==
    [rows |-> X.rows - p, cols |-> X.cols, a |-> [i \in 1..(X.rows - p) |-> X.a[p + i]]]

\* the unlabeled matrices of the pipeline: the row e_1 above a row of SmallRowSet
UnlabeledSet(c) ==
    {[rows |-> 2, cols |-> c, a |-> <<UnitRow(c, 1, 1), r>>] : r \in SmallRowSet(c)}

\* the input sets of the pipeline
Inputs ==
    [Ua : {Fill(r, c, 1) : r \in 1..MaxM, c \in 1..MaxD},
     Ub : {Fill(r, c, 1) : r \in 1..MaxM, c \in 1..MaxD},
     A  : {Fill(1, c, 3) : c \in 1..MaxD},
     B  : {Fill(1, c, 3) : c \in 1..MaxD},
     XlA_pos : UNION {MatsOf(1, c, SmallRowSet(c)) : c \in 2..MaxXCols},
     XlA_neg : UNION {MatsOf(1, c, SmallRowSet(c)) : c \in 2..MaxXCols},
     XuA : UNION {UnlabeledSet(c) : c \in 2..MaxXCols},
     XuB : UNION {UnlabeledSet(c) : c \in 2..MaxXCols}]

\* a 1 x c matrix holding the unit row e_j
RowMat(c, j) == [rows |-> 1, cols |-> c, a |-> <<UnitRow(c, j, 1)>>]

DefaultInput ==
    [Ua |-> Fill(1, 1, 1), Ub |-> Fill(1, 1, 1), A |-> Fill(1, 1, 3), B |-> Fill(1, 1, 3),
     XlA_pos |-> RowMat(2, 1), XlA_neg |-> RowMat(2, 2),
     XuA |-> RowMat(2, 1), XuB |-> RowMat(2, 1)]

NoSelf == [M |-> 0, d |-> 0, h |-> 0,
           w1 |-> 0, w2 |-> 0, w3 |-> 0, lambda_1 |-> 0, lambda_2 |-> 0,
           k2 |-> 0, k3 |-> 0, k3_bar |-> 0, dims |-> 0]
NoProj == [u |-> Err, Pa |-> Err, Pb |-> Err]
NoRet == [op |-> "none", val |-> Err, neighbours |-> <<>>]
NoArg == [W |-> Err, X |-> Err, k |-> 0]

-----------------------------------------------------------------------------
(* The pipeline: SupEmb(...), get_embedding(), get_projection(Q). *)

Init ==
    /\ inp \in Inputs
    /\ pc = "new"
    /\ self = NoSelf
    /\ Q = Err
    /\ proj = NoProj
    /\ calls = <<>>
    /\ log = <<>>
    /\ arg = NoArg
    /\ ret = NoRet

\* SE = SupEmb(Ua, Ub, A, B, XlA_pos, XlA_neg, XuA, XuB)
Construct ==
    /\ pc = "new"
    /\ IF init_asserts(inp.Ua, inp.Ub, inp.A, inp.B,
                       inp.XlA_pos, inp.XlA_neg, inp.XuA, inp.XuB)
       THEN /\ pc' = "constructed"
            /\ self' = init_fields(inp.Ua, inp.Ub)
       ELSE /\ pc' = "assert_failed"
            /\ self' = self
    /\ UNCHANGED <<inp, Q, proj, calls, log, arg, ret>>

\* Q = SE.get_embedding()
GetEmbedding ==
    /\ pc = "constructed"
    /\ \E r \in get_embedding(inp, self) :
        /\ Q' = r.Q
        /\ calls' = calls \o r.calls
        /\ log' = log \o r.log
        /\ pc' = IF IsErr(r.Q) THEN "dim_error" ELSE "embedded"
    /\ UNCHANGED <<inp, self, proj, arg, ret>>

\* SE.dims = dims; Pa, Pb = SE.get_projection(Q)
GetProjection ==
    /\ pc = "embedded"
    /\ \E dims \in 1..MaxDims :
        /\ self' = [self EXCEPT !.dims = dims]
        /\ \E p \in get_projection(Q, self.d, dims) : proj' = p
    /\ pc' = "projected"
    /\ UNCHANGED <<inp, Q, calls, log, arg, ret>>

Next == Construct \/ GetEmbedding \/ GetProjection

Spec == Init /\ [][Next]_vars


-----------------------------------------------------------------------------
(* Direct calls of the methods on a constructed object, one call per run.   *)
(* A run draws one of: a square weight matrix W from WSet; an instance      *)
(* matrix X from XSet and a k; or the object's own labeled rows (an X of    *)
(* XSet split into positive and negative rows), its k2 and its lambda_2.    *)
(* What a run does not draw keeps a default value.                          *)

DefaultArg == [W |-> Fill(1, 1, 1), X |-> Fill(1, 1, 1), k |-> 1]
DefaultSelf == init_fields(DefaultInput.Ua, DefaultInput.Ub)

InitCalls ==
    /\ pc = "constructed"
    /\ Q = Err
    /\ proj = NoProj
    /\ calls = <<>>
    /\ log = <<>>
    /\ ret = NoRet
    /\ \/ /\ arg \in [W : WSet, X : {DefaultArg.X}, k : {DefaultArg.k}]
          /\ inp = DefaultInput
          /\ self = DefaultSelf
       \/ /\ arg \in [W : {DefaultArg.W}, X : XSet, k : 0..MaxK]
          /\ inp = DefaultInput
          /\ self = DefaultSelf
       \/ /\ arg = DefaultArg
          /\ \E X \in XSet : \E p \in 0..X.rows :
                inp = [DefaultInput EXCEPT !.XlA_pos = TopRows(X, p),
                                           !.XlA_neg = RestRows(X, p)]
          /\ \E k2 \in 0..MaxK : \E lam \in 1..MaxLambda :
                self = [DefaultSelf EXCEPT !.k2 = k2, !.lambda_2 = lam]

\* SE.get_Dinv(W)
CallGetDinv ==
    /\ ret.op = "none"
    /\ LET r == get_Dinv(arg.W)
       IN  /\ ret' = [op |-> "get_Dinv", val |-> r.Dinv, neighbours |-> <<>>]
           /\ log' = log \o r.log
    /\ calls' = Append(calls, "get_Dinv")
    /\ UNCHANGED <<inp, pc, self, Q, proj, arg>>

\* SE.get_Laplacian(W)
CallGetLaplacian ==
    /\ ret.op = "none"
    /\ ret' = [op |-> "get_Laplacian", val |-> get_Laplacian(arg.W), neighbours |-> <<>>]
    /\ calls' = Append(calls, "get_Laplacian")
    /\ UNCHANGED <<inp, pc, self, Q, proj, log, arg>>

\* SE.get_kNNs(X, k)
CallGetKNNs ==
    /\ ret.op = "none"
    /\ \E r \in get_kNNs(arg.X, arg.k) :
        ret' = [op |-> "get_kNNs", val |-> r.S, neighbours |-> r.neighbours]
    /\ calls' = Append(calls, "get_kNNs")
    /\ UNCHANGED <<inp, pc, self, Q, proj, log, arg>>

\* SE.get_W2()
CallGetW2 ==
    /\ ret.op = "none"
    /\ \E W2 \in get_W2(inp.XlA_pos, inp.XlA_neg, self.k2, self.lambda_2) :
        ret' = [op |-> "get_W2", val |-> W2, neighbours |-> <<>>]
    /\ calls' = Append(calls, "get_W2")
    /\ UNCHANGED <<inp, pc, self, Q, proj, log, arg>>

\* SE.get_W3(X, k)
CallGetW3 ==
    /\ ret.op = "none"
    /\ \E W3 \in get_W3(arg.X, arg.k) :
        ret' = [op |-> "get_W3", val |-> W3, neighbours |-> <<>>]
    /\ calls' = Append(calls, "get_W3")
    /\ UNCHANGED <<inp, pc, self, Q, proj, log, arg>>

NextCalls ==
    CallGetDinv \/ CallGetLaplacian \/ CallGetKNNs \/ CallGetW2 \/ CallGetW3

SpecCalls == InitCalls /\ [][NextCalls]_vars

-----------------------------------------------------------------------------
(* The properties. *)

Embedded == pc \in {"embedded", "projected"}

\* the six shape equalities of the inputs
SixShapeEqualities ==
    /\ inp.Ua.rows = inp.Ub.rows
    /\ inp.Ub.cols = inp.B.cols
    /\ inp.Ua.cols = inp.A.cols
    /\ inp.XlA_pos.cols = inp.XlA_neg.cols
    /\ inp.XuA.cols = inp.Ua.rows + inp.A.rows
    /\ inp.XuB.cols = inp.Ub.rows + inp.B.rows

\* the cosine similarity of the rows of arg.X, and the row sums of arg.W
ArgS == dot(normalize(arg.X), T(normalize(arg.X)))
ArgRowSums == [i \in 1..arg.W.rows |-> RSum(arg.W.a[i], arg.W.cols)]
ArgMean == RDiv(RSum(ArgRowSums, arg.W.rows), R(arg.W.rows))

\* C1: the Q that get_embedding returns is symmetric, Q[i,j] = Q[j,i] for all
\* i, j in 0..d+h-1.  (Violated: a Q holding NaN equals nothing, itself
\* included.)
C1_QSymmetric ==
    Embedded =>
        \A i, j \in 1..(self.d + self.h) : REq(Q.a[i][j], Q.a[j][i])

C3_ConstructorAsserts ==
    pc # "new" =>
        IF SixShapeEqualities
        THEN /\ pc # "assert_failed"
             /\ self.M = inp.Ua.rows /\ self.d = inp.Ua.cols /\ self.h = inp.Ub.cols
        ELSE /\ pc = "assert_failed"
             /\ calls = <<>> /\ log = <<>> /\ IsErr(Q)

\* the constructor has failed on inputs that violate the last equality only
C3_Witness ==
    /\ pc = "assert_failed"
    /\ inp.Ua.rows = inp.Ub.rows
    /\ inp.Ub.cols = inp.B.cols
    /\ inp.Ua.cols = inp.A.cols
    /\ inp.XlA_pos.cols = inp.XlA_neg.cols
    /\ inp.XuA.cols = inp.Ua.rows + inp.A.rows
    /\ inp.XuB.cols # inp.Ub.rows + inp.B.rows

\* C4: once the constructor has succeeded, no product or concatenation of
\* get_embedding fails on incompatible dimensions.  (Violated: the columns of
\* XlA are never compared with the rows of totA.)
C4_NoShapeFailureAfterConstruct == pc # "dim_error"

\* C5: for 0 <= k <= n-1, get_kNNs returns for each row i exactly k column
\* indices, indices of the k largest values of row i of S.  (Violated at
\* k = 0.)
C5_ExactlyKNeighbours ==
    (ret.op = "get_kNNs" /\ arg.k <= arg.X.rows - 1) =>
        \A i \in 1..arg.X.rows :
            /\ Cardinality(ret.neighbours[i]) = arg.k
            /\ ret.neighbours[i] \subseteq 1..arg.X.rows
            /\ \A j \in ret.neighbours[i], m \in (1..arg.X.rows) \ ret.neighbours[i] :
                  ~RLt(ret.val.a[i][j], ret.val.a[i][m])

C7_ZeroRowsPerturbed ==
    (ret.op = "get_Dinv" /\ \E i \in 1..arg.W.rows : ArgRowSums[i] = Zero) =>
        /\ \A x \in 1..Len(log) : log[x] # "divide by zero"
        /\ \E x \in 1..Len(log) : log[x] = "Perturbations = 1"

\* C8: every row of get_Laplacian(W) sums to zero.
C8_LaplacianRowsSumToZero ==
    ret.op = "get_Laplacian" =>
        /\ ret.val.rows = arg.W.rows /\ ret.val.cols = arg.W.cols
        /\ \A i \in 1..arg.W.rows : RSum(ret.val.a[i], arg.W.cols) = Zero

\* the Laplacian of an asymmetric W with a nonzero row sum
C8_Witness ==
    /\ ret.op = "get_Laplacian"
    /\ arg.W.rows >= 2
    /\ arg.W.a[1][2] # arg.W.a[2][1]
    /\ ArgRowSums[1] # Zero
    /\ ret.val.a[1][1] # arg.W.a[1][1]

\* XlA as C9 has it: the rows of XlA_pos (label +1) above those of XlA_neg
\* (label -1), and the cosine similarity of its rows
StackedRows == inp.XlA_pos.rows + inp.XlA_neg.rows
Stacked ==
    [rows |-> StackedRows, cols |-> inp.XlA_pos.cols,
     a |-> [i \in 1..StackedRows |->
             IF i <= inp.XlA_pos.rows THEN inp.XlA_pos.a[i]
                                      ELSE inp.XlA_neg.a[i - inp.XlA_pos.rows]]]
StackedS == dot(normalize(Stacked), T(normalize(Stacked)))
Label(i) == IF i <= inp.XlA_pos.rows THEN 1 ELSE -1

\* W2 is built from the neighbour map nb as C9 says
W2FromNeighbours(W2, nb) ==
    \A i, j \in 1..StackedRows :
        IF in_nb(j, nb[i]) /\ in_nb(i, nb[j])
        THEN (IF Label(i) = Label(j)
              THEN W2.a[i][j] = RMul(R(-self.lambda_2), StackedS.a[i][j])
              ELSE W2.a[i][j] = StackedS.a[i][j])
        ELSE W2.a[i][j] = Zero

\* C9: with the positive rows stacked above the negative rows, W2[i,j] is
\* -lambda_2 * S[i,j] for mutual k2-nearest neighbours of one label, S[i,j]
\* for mutual neighbours of different labels, and 0 for every other pair (the
\* neighbours being those of one of the orders the sort may give to ties).
C9_W2Weights ==
    ret.op = "get_W2" =>
        /\ ret.val.rows = StackedRows /\ ret.val.cols = StackedRows
        /\ \E r \in get_kNNs(Stacked, self.k2) : W2FromNeighbours(ret.val, r.neighbours)

\* a W2 holding a same-label weight, a different-label weight and a zero at a
\* pair of similar rows that are not mutual neighbours
C9_Witness ==
    /\ ret.op = "get_W2"
    /\ self.lambda_2 = 2
    /\ \E i, j \in 1..StackedRows :
          /\ i # j /\ Label(i) = Label(j) /\ StackedS.a[i][j] # Zero
          /\ ret.val.a[i][j] = RMul(R(-2), StackedS.a[i][j])
    /\ \E i, j \in 1..StackedRows :
          /\ Label(i) # Label(j) /\ StackedS.a[i][j] # Zero
          /\ ret.val.a[i][j] = StackedS.a[i][j]
    /\ \E i, j \in 1..StackedRows : StackedS.a[i][j] # Zero /\ ret.val.a[i][j] = Zero

=============================================================================
